---- MODULE Spec2Model ----
(***************************************************************************)
(* Independent parts of the repository, modelled side by side:             *)
(*                                                                         *)
(*  - the MetadataStorage contract (src/unnamed/part_002, lines 44-147):   *)
(*    a mapping-backed record store with owner-gated writes;               *)
(*  - the dashboard's polling client                                       *)
(*    (src/petrolpump_manager/frontend/static/script.js): a setInterval    *)
(*    timer that starts one fetchAndUpdateData call per tick.              *)
(*                                                                         *)
(* StoreSpec runs the contract, PollSpec / PollFairSpec / TrainFairSpec   *)
(* run the client, RenderSpec and FlowerSpec run its table and status     *)
(* rendering on wider inputs, and SimpleSpec runs the SimpleStorage       *)
(* contract as its test (src/unnamed/part_001) uses it.                   *)
(***************************************************************************)
EXTENDS Integers, Sequences, FiniteSets, TLC

VARIABLES
    \* ---- MetadataStorage (contract storage) ----
    metadataCount,   \* uint256 private metadataCount
    metadataStore,   \* mapping(uint256 => Metadata) private metadataStore
    blockTime,       \* block.timestamp of the latest block seen
    \* ---- observation of the contract's callers ----
    createdIds,      \* ids returned by the successful createMetadata calls, in call order
    lastCall,        \* the most recent call: who, what, and how it ended
    \* ---- the backend the dashboard polls ----
    srvLedger,       \* what GET /api/ledger serves now (GET /api/blockchain mirrors it)
    srvClock,        \* how many times srvLedger has changed
    \* ---- script.js: the page ----
    dom,             \* the elements script.js writes
    calls,           \* the fetchAndUpdateData calls in flight, oldest first
    flowerCalls,     \* how many updateFlowerStatus calls await their fetch
    hidePending,     \* a setTimeout of resetTrainingUI has not fired yet
    updateInterval,  \* the setInterval timer is set
    uncaught,        \* an error has escaped fetchAndUpdateData or updateFlowerStatus
    \* ---- SimpleStorage (contract storage) and its callers ----
    storedValue,     \* the contract's one uint256
    pendingTxs,      \* arguments of the setValue transactions sent but not yet mined
    minedTxs,        \* arguments of the setValue transactions mined since deployment, in order
    gotValue,        \* what the latest getValue() since deployment returned (<<>>: none yet)
    \* ---- script.js: the training controls ----
    trainCalls,      \* the startTraining calls awaiting their POST /api/train, oldest first
    stopCalls,       \* how many stopTraining calls await their POST /api/stop
    alertText        \* the message of the latest alert() ("": none yet)

storeVars == <<metadataCount, metadataStore, blockTime, createdIds, lastCall>>

pollVars == <<srvLedger, srvClock, dom, calls, flowerCalls, hidePending,
              updateInterval, uncaught>>

simpleVars == <<storedValue, pendingTxs, minedTxs, gotValue>>

trainVars == <<trainCalls, stopCalls, alertText>>

vars == <<storeVars, pollVars, simpleVars, trainVars>>

----------------------------------------------------------------------------
(* Bounds *)

\* createMetadata is not called once this many records exist.
MaxRecords == 2

\* At most this many fetchAndUpdateData calls are in flight at once: a tick
\* that would start one more waits.
MaxCycles == 2

\* The backend's ledger changes at most this many times.
MaxClock == 2

\* The backend's ledger holds at most this many entries.
MaxEntries == 1

\* The arrays the tables are tried on hold at most this many ledger
\* entries and this many audit blocks.
MaxRows == 3
MaxBlocks == 2

\* At most this many setValue transactions are sent to one deployment.
MaxTxs == 3

\* At most this many startTraining calls, and this many stopTraining calls,
\* await their response at once.
MaxStarts == 2
MaxStops == 1

----------------------------------------------------------------------------
(* MetadataStorage: values *)

\* msg.sender of a call.
Callers == {"alice", "bob"}

\* address(0): the owner field of a storage slot that was never written.
ZeroAddress == "0x0"

\* Argument tuples createMetadata is called with: all fields empty, and all
\* fields set.
CreateArgs ==
    { [title |-> "", description |-> "", tags |-> <<>>, fileHash |-> ""],
      [title |-> "t", description |-> "d", tags |-> <<"a", "b">>, fileHash |-> "h0"] }

\* _newFileHash arguments of updateFileHash.
NewHashes == {"h0", "h1"}

\* _key and _value arguments of addCustomField / getCustomField.
FieldKeys == {"k1", "k2"}
FieldValues == {"", "v"}

\* Ids calls are made with: every id a record can have, and one past them.
CallIds == 0..MaxRecords

\* A storage slot of metadataStore that was never written: Solidity's zero
\* value of struct Metadata.
EmptyMetadata ==
    [title |-> "", description |-> "", owner |-> ZeroAddress, timestamp |-> 0,
     tags |-> <<>>, fileHash |-> "", customFields |-> [k \in FieldKeys |-> ""]]

\* A mapping whose unwritten slots read as the record created last.
StoreAtLatest(id) ==
    IF id \in DOMAIN metadataStore THEN metadataStore[id]
    ELSE IF metadataCount > 0 /\ (metadataCount - 1) \in DOMAIN metadataStore
    THEN metadataStore[metadataCount - 1]
    ELSE EmptyMetadata

\* metadataStore[_id]: a mapping has a (zero) value at every key.
StoreAt(id) ==
    IF id \in DOMAIN metadataStore THEN metadataStore[id] ELSE EmptyMetadata

----------------------------------------------------------------------------
(* MetadataStorage: the require conditions and the id counter *)

\* require(_id < metadataCount, "Metadata does not exist")
Exists(id) == id < metadataCount

IsOwnerAnyone(caller, id) == TRUE

\* require(msg.sender == metadataStore[_id].owner, "Not the owner")
IsOwner(caller, id) == caller = StoreAt(id).owner

CountAfterCreateStuck(count) == count

\* metadataCount++ : the value stored back.
CountAfterCreate(count) == count + 1

WriteGuardOwnerFirst(caller, id) ==
    IF ~IsOwner(caller, id) THEN "Unauthorized"
    ELSE IF ~Exists(id) THEN "NotFound"
    ELSE "ok"

\* The two require statements that open updateFileHash and addCustomField,
\* in their order: the first one that fails reverts the call.
WriteGuard(caller, id) ==
    IF ~Exists(id) THEN "NotFound"
    ELSE IF ~IsOwner(caller, id) THEN "Unauthorized"
    ELSE "ok"

----------------------------------------------------------------------------
(* MetadataStorage: the functions *)

\* createMetadata(_title, _description, _tags, _fileHash), mined in a block
\* of timestamp t.
createMetadata(caller, args, t) ==
    /\ metadataCount < MaxRecords
    /\ LET metadataId == metadataCount
           newMetadata ==
               [StoreAt(metadataId) EXCEPT
                   !.title = args.title,
                   !.description = args.description,
                   !.owner = caller,
                   !.timestamp = t,
                   !.tags = args.tags,
                   !.fileHash = args.fileHash]
       IN /\ metadataCount' = CountAfterCreate(metadataCount)
          /\ metadataStore' =
                 [id \in DOMAIN metadataStore \cup {metadataId} |->
                     IF id = metadataId THEN newMetadata ELSE metadataStore[id]]
          /\ createdIds' = Append(createdIds, metadataId)
          /\ lastCall' = [op |-> "createMetadata", caller |-> caller,
                          id |-> metadataId, key |-> "", result |-> "ok",
                          ret |-> metadataId]
    /\ blockTime' = t
    /\ UNCHANGED <<pollVars, simpleVars, trainVars>>

\* An updateFileHash that writes the new hash into the title as well.
updateFileHashRetitling(caller, id, newFileHash) ==
    LET result == WriteGuard(caller, id) IN
    /\ metadataStore' =
           IF result = "ok"
           THEN [metadataStore EXCEPT ![id].fileHash = newFileHash,
                                      ![id].title = newFileHash]
           ELSE metadataStore
    /\ lastCall' = [op |-> "updateFileHash", caller |-> caller, id |-> id,
                    key |-> "", result |-> result,
                    ret |-> IF result = "ok" THEN newFileHash ELSE ""]
    /\ UNCHANGED <<metadataCount, blockTime, createdIds,
                   pollVars, simpleVars, trainVars>>

\* updateFileHash(_id, _newFileHash)
updateFileHash(caller, id, newFileHash) ==
    LET result == WriteGuard(caller, id) IN
    /\ metadataStore' =
           IF result = "ok"
           THEN [metadataStore EXCEPT ![id].fileHash = newFileHash]
           ELSE metadataStore
    /\ lastCall' = [op |-> "updateFileHash", caller |-> caller, id |-> id,
                    key |-> "", result |-> result,
                    ret |-> IF result = "ok" THEN newFileHash ELSE ""]
    /\ UNCHANGED <<metadataCount, blockTime, createdIds,
                   pollVars, simpleVars, trainVars>>

\* An addCustomField that sets every key of the record to the value.
addCustomFieldEveryKey(caller, id, key, value) ==
    LET result == WriteGuard(caller, id) IN
    /\ metadataStore' =
           IF result = "ok"
           THEN [metadataStore EXCEPT ![id].customFields = [k \in FieldKeys |-> value]]
           ELSE metadataStore
    /\ lastCall' = [op |-> "addCustomField", caller |-> caller, id |-> id,
                    key |-> key, result |-> result,
                    ret |-> IF result = "ok" THEN value ELSE ""]
    /\ UNCHANGED <<metadataCount, blockTime, createdIds,
                   pollVars, simpleVars, trainVars>>

\* addCustomField(_id, _key, _value)
addCustomField(caller, id, key, value) ==
    LET result == WriteGuard(caller, id) IN
    /\ metadataStore' =
           IF result = "ok"
           THEN [metadataStore EXCEPT ![id].customFields[key] = value]
           ELSE metadataStore
    /\ lastCall' = [op |-> "addCustomField", caller |-> caller, id |-> id,
                    key |-> key, result |-> result,
                    ret |-> IF result = "ok" THEN value ELSE ""]
    /\ UNCHANGED <<metadataCount, blockTime, createdIds,
                   pollVars, simpleVars, trainVars>>

\* A getMetadata that returns the description as title and the title as
\* description.
MetadataOfSwapped(id) ==
    LET metadata == StoreAt(id) IN
    <<metadata.description, metadata.title, metadata.owner,
      metadata.timestamp, metadata.tags, metadata.fileHash>>

\* What getMetadata(_id) returns.
MetadataOf(id) ==
    LET metadata == StoreAt(id) IN
    <<metadata.title, metadata.description, metadata.owner,
      metadata.timestamp, metadata.tags, metadata.fileHash>>

\* The caller recorded for a view: the views never read msg.sender.
AnyCaller == "any"

\* getMetadata(_id): a view.
getMetadata(id) ==
    /\ lastCall' = [op |-> "getMetadata", caller |-> AnyCaller, id |-> id,
                    key |-> "",
                    result |-> IF Exists(id) THEN "ok" ELSE "NotFound",
                    ret |-> IF Exists(id) THEN MetadataOf(id) ELSE <<>>]
    /\ UNCHANGED <<metadataCount, metadataStore, blockTime, createdIds,
                   pollVars, simpleVars, trainVars>>

\* getCustomField(_id, _key): a view.
getCustomField(id, key) ==
    /\ lastCall' = [op |-> "getCustomField", caller |-> AnyCaller, id |-> id,
                    key |-> key,
                    result |-> IF Exists(id) THEN "ok" ELSE "NotFound",
                    ret |-> IF Exists(id) THEN StoreAt(id).customFields[key]
                            ELSE ""]
    /\ UNCHANGED <<metadataCount, metadataStore, blockTime, createdIds,
                   pollVars, simpleVars, trainVars>>

\* getMetadataCount(): a view.
getMetadataCount ==
    /\ lastCall' = [op |-> "getMetadataCount", caller |-> AnyCaller, id |-> 0,
                    key |-> "", result |-> "ok", ret |-> metadataCount]
    /\ UNCHANGED <<metadataCount, metadataStore, blockTime, createdIds,
                   pollVars, simpleVars, trainVars>>

\* The contract right after deployment; no call has been made.
StoreInit ==
    /\ metadataCount = 0
    /\ metadataStore = <<>>
    /\ blockTime = 1
    /\ createdIds = <<>>
    /\ lastCall = [op |-> "deploy", caller |-> ZeroAddress, id |-> 0,
                   key |-> "", result |-> "ok", ret |-> 0]

\* Blocks carry non-decreasing timestamps: a call is mined in the latest
\* block seen or in a later one.
BlockTimes == {blockTime, blockTime + 1}

StoreNext ==
    \/ \E caller \in Callers, args \in CreateArgs, t \in BlockTimes :
           createMetadata(caller, args, t)
    \/ \E caller \in Callers, id \in CallIds, h \in NewHashes :
           updateFileHash(caller, id, h)
    \/ \E caller \in Callers, id \in CallIds, k \in FieldKeys, v \in FieldValues :
           addCustomField(caller, id, k, v)
    \/ \E id \in CallIds : getMetadata(id)
    \/ \E id \in CallIds, k \in FieldKeys : getCustomField(id, k)
    \/ getMetadataCount

----------------------------------------------------------------------------
(* MetadataStorage: claims *)

\* The calls that write a record, and the calls that take a record id.
WriteOps == {"updateFileHash", "addCustomField"}
IdOps == WriteOps \cup {"getMetadata", "getCustomField"}

\* C1: after any sequence of calls, getMetadataCount() (the stored count)
\* equals the number of successful createMetadata calls, the ids they
\* returned are strictly increasing in call order (hence pairwise distinct),
\* and the count never decreases.
C1_CountEqualsCreates ==
    /\ [](/\ metadataCount = Len(createdIds)
          /\ lastCall.op = "getMetadataCount" => lastCall.ret = Len(createdIds)
          /\ \A i, j \in 1..Len(createdIds) :
                 i < j => createdIds[i] < createdIds[j])
    /\ [][metadataCount' >= metadataCount]_vars

\* Two creates succeeded, among other calls, and the count was then read.
C1_Witness ==
    /\ Len(createdIds) = 2
    /\ lastCall.op = "getMetadataCount"
    /\ \E id \in DOMAIN metadataStore : metadataStore[id].fileHash = "h1"

\* C2: a step that is updateFileHash or addCustomField on an existing record,
\* called by someone who is not its owner, ends Unauthorized and leaves every
\* record and the record count as they were.
C2_UnauthorizedChangesNothing ==
    [][(/\ lastCall'.op \in WriteOps
        /\ lastCall'.id < metadataCount
        /\ lastCall'.caller # StoreAt(lastCall'.id).owner)
       => /\ lastCall'.result = "Unauthorized"
          /\ metadataStore' = metadataStore
          /\ metadataCount' = metadataCount]_vars

\* A non-owner's addCustomField on a record that already carries a custom
\* field and an updated file hash was refused.
C2_Witness ==
    /\ lastCall.op = "addCustomField"
    /\ lastCall.result = "Unauthorized"
    /\ lastCall.id < metadataCount
    /\ lastCall.caller # StoreAt(lastCall.id).owner
    /\ StoreAt(lastCall.id).customFields["k1"] = "v"
    /\ StoreAt(lastCall.id).fileHash = "h1"

\* C3: a step that is getMetadata, getCustomField, updateFileHash or
\* addCustomField with an id greater than or equal to the record count ends
\* NotFound, whoever calls, and leaves the store as it was.
C3_OutOfRangeIsNotFound ==
    [][(lastCall'.op \in IdOps /\ lastCall'.id >= metadataCount)
       => /\ lastCall'.result = "NotFound"
          /\ metadataStore' = metadataStore
          /\ metadataCount' = metadataCount]_vars

\* updateFileHash with an id past the last record, by a caller who owns no
\* record, ended NotFound.
C3_Witness ==
    /\ lastCall.op = "updateFileHash"
    /\ lastCall.result = "NotFound"
    /\ metadataCount >= 1
    /\ lastCall.id >= metadataCount
    /\ \A id \in DOMAIN metadataStore : metadataStore[id].owner # lastCall.caller

----------------------------------------------------------------------------
(* The dashboard page (script.js): values *)

\* The positions of the calls in flight, 1 the oldest.
Slots == 1..MaxCycles

\* How a fetch can fail: fetch() rejects, the response is not ok, or
\* response.json() rejects.
FetchFailures == {"network", "http", "parse"}

\* A JSON null where an entry object is expected: reading a property of it
\* throws a TypeError.
NullEntry == [isNull |-> TRUE, round_num |-> 0, timestamp |-> 0]

\* The backend's ledger entry of round r, written at time t.
LedgerEntry(r, t) == [isNull |-> FALSE, round_num |-> r, timestamp |-> t]

\* A hash is the sequence of its characters. Zeros(n) is n characters 0.
Zeros(n) == [i \in 1..n |-> "0"]

\* previous_hash of the first audit block: 64 characters 0.
GenesisHash == Zeros(64)

\* The block hashes of the backend, shortened to four characters: the hash
\* of the audit block of round r (r >= 1).
BlockHash(r) ==
    << <<"a", "1", "f", "0">>, <<"b", "2", "e", "9">>,
       <<"c", "3", "d", "8">>, <<"d", "4", "c", "7">> >>[r]

\* What GET /api/blockchain serves: one block per ledger entry, each naming
\* the hash of the block before it.
Chain(ledger) ==
    [i \in 1..Len(ledger) |->
        [isNull |-> FALSE, round_num |-> ledger[i].round_num,
         timestamp |-> ledger[i].timestamp, data_hash |-> BlockHash(i),
         previous_hash |-> IF i = 1 THEN GenesisHash ELSE BlockHash(i - 1)]]

\* The payloads a successful fetch of the ledger (of the audit log) can
\* parse to: the backend's current data, or an array holding a null.
\* ver is the backend's clock when the response was made.
LedgerPayloads ==
    { [rows |-> srvLedger, ver |-> srvClock],
      [rows |-> <<NullEntry>>, ver |-> srvClock] }
ChainPayloads ==
    { [rows |-> Chain(srvLedger), ver |-> srvClock],
      [rows |-> <<NullEntry>>, ver |-> srvClock] }

\* let ledgerData = []
EmptyData == [rows |-> <<>>, ver |-> 0]

\* Rendering rows that hold a null entry throws (entry.round_num,
\* entry.accuracy, a.timestamp of null).
Throws(rows) == \E i \in 1..Len(rows) : rows[i].isNull

\* Payloads of GET /api/flower/status.
FlowerPayloads ==
    { [connected |-> TRUE, server_running |-> TRUE, training_in_progress |-> TRUE,
       clients_connected |-> 2, current_round |-> 1, total_rounds |-> 2],
      [connected |-> FALSE, server_running |-> FALSE, training_in_progress |-> FALSE,
       clients_connected |-> 0, current_round |-> 0, total_rounds |-> 0] }

----------------------------------------------------------------------------
(* The dashboard page: rendering *)

\* sortedData = [...data].sort((a, b) => new Date(b.timestamp) - new Date(a.timestamp)):
\* a stable sort, newest first. InsertDesc puts e behind every row that is
\* not older than it.
RECURSIVE InsertDesc(_, _)
InsertDesc(sorted, e) ==
    IF sorted = <<>> THEN <<e>>
    ELSE IF sorted[1].timestamp >= e.timestamp
         THEN <<sorted[1]>> \o InsertDesc(Tail(sorted), e)
         ELSE <<e>> \o sorted

\* A sort that leaves the rows in the order received.
SortKept(rows) == rows

RECURSIVE SortDesc(_)
SortDesc(rows) ==
    IF rows = <<>> THEN <<>>
    ELSE InsertDesc(SortDesc(SubSeq(rows, 1, Len(rows) - 1)), rows[Len(rows)])

\* hash.substring(0, 16)
Substring16(hash) == SubSeq(hash, 1, IF Len(hash) < 16 THEN Len(hash) ELSE 16)

\* A previous-hash cell that tells the first block by the first 16
\* characters of its previous_hash.
PreviousHashCellByPrefix(previous_hash) ==
    IF previous_hash = <<>> THEN [label |-> "N/A", prefix |-> <<>>]
    ELSE IF Substring16(previous_hash) = Zeros(16)
         THEN [label |-> "Genesis", prefix |-> <<>>]
         ELSE [label |-> "...", prefix |-> Substring16(previous_hash)]

\* The previous-hash cell of an audit block's row: N/A for an empty (or
\* absent) previous_hash, Genesis for the 64 zeros, and otherwise the first
\* 16 characters followed by "...".
PreviousHashCell(previous_hash) ==
    IF previous_hash = <<>> THEN [label |-> "N/A", prefix |-> <<>>]
    ELSE IF previous_hash = GenesisHash
         THEN [label |-> "Genesis", prefix |-> <<>>]
         ELSE [label |-> "...", prefix |-> Substring16(previous_hash)]

\* hash.substring(0, 16) + '...' of the data-hash cell, N/A for an empty
\* (or absent) data_hash.
DataHashCell(data_hash) ==
    IF data_hash = <<>> THEN [label |-> "N/A", prefix |-> <<>>]
    ELSE [label |-> "...", prefix |-> Substring16(data_hash)]

\* tbody.innerHTML as updateLedgerTable(ledgerData) sets it.
LedgerTableOf(rows) ==
    IF Len(rows) = 0
    THEN [kind |-> "No training data available", rows |-> <<>>]
    ELSE [kind |-> "rows",
          rows |-> [i \in 1..Len(rows) |->
                      <<SortDesc(rows)[i].round_num, SortDesc(rows)[i].timestamp>>]]

\* tbody.innerHTML as updateBlockchainTable(blockchainData) sets it.
BlockchainTableOf(rows) ==
    IF Len(rows) = 0
    THEN [kind |-> "No blockchain data available", rows |-> <<>>]
    ELSE [kind |-> "rows",
          rows |-> [i \in 1..Len(rows) |->
                      [round_num |-> SortDesc(rows)[i].round_num,
                       timestamp |-> SortDesc(rows)[i].timestamp,
                       data_hash |-> DataHashCell(SortDesc(rows)[i].data_hash),
                       previous |-> PreviousHashCell(SortDesc(rows)[i].previous_hash)]]]

\* The labels and data updateCharts(ledgerData) gives both charts: one point
\* per entry, in the order received.
ChartsOf(rows) == [i \in 1..Len(rows) |-> <<"Round", i, rows[i].round_num>>]

\* A label choice that looks at training_in_progress before server_running.
StatusLabelTrainingFirst(status) ==
    IF status.connected
    THEN [text |-> "Connected", clients |-> status.clients_connected]
    ELSE IF status.training_in_progress
    THEN [text |-> "Starting up...", clients |-> 0]
    ELSE IF status.server_running
    THEN [text |-> "Server running but not accessible", clients |-> 0]
    ELSE [text |-> "Disconnected", clients |-> 0]

\* The label updateFlowerStatus picks: the first flag that is set decides.
StatusLabel(status) ==
    IF status.connected
    THEN [text |-> "Connected", clients |-> status.clients_connected]
    ELSE IF status.server_running
    THEN [text |-> "Server running but not accessible", clients |-> 0]
    ELSE IF status.training_in_progress
    THEN [text |-> "Starting up...", clients |-> 0]
    ELSE [text |-> "Disconnected", clients |-> 0]

\* Math.min(100, Math.round((current_round / total_rounds) * 100)), or 0
\* when total_rounds is not above 0.
Progress(status) ==
    IF status.total_rounds > 0
    THEN LET rounded == (200 * status.current_round + status.total_rounds)
                            \div (2 * status.total_rounds)
         IN IF rounded > 100 THEN 100 ELSE rounded
    ELSE 0

\* The banner when it is hidden. errorText is written only by showError,
\* which also un-hides the banner, and nothing reads it: the page records
\* the text of the banner as the user sees it, none while it is hidden.
NoMessage == [source |-> "", kind |-> ""]

\* A hideError that leaves the banner as it is.
hideErrorKeeping(d) == d

\* hideError()
hideError(d) == [d EXCEPT !.errorVisible = FALSE, !.errorText = NoMessage]

\* showError(message)
showError(d, message) == [d EXCEPT !.errorText = message, !.errorVisible = TRUE]

\* setLoading(isLoading)
setLoading(d, isLoading) == [d EXCEPT !.loading = isLoading]

\* updateCharts(ledgerData)
updateCharts(d, rows) ==
    IF Len(rows) = 0 THEN d ELSE [d EXCEPT !.charts = ChartsOf(rows)]

\* updateLedgerTable(ledgerData), updateBlockchainTable(blockchainData)
updateLedgerTable(d, rows) == [d EXCEPT !.ledgerTable = LedgerTableOf(rows)]
updateBlockchainTable(d, rows) ==
    [d EXCEPT !.blockchainTable = BlockchainTableOf(rows)]

\* A resetTrainingUI that leaves the Start button as it is.
resetTrainingUIKeepingStart(d) ==
    [d EXCEPT !.stopDisabled = FALSE,
              !.stopHidden = TRUE,
              !.statusClasses = (@ \ {"blue"}) \cup {"green"},
              !.statusText = <<"Training completed successfully", 0>>]

\* resetTrainingUI(), but for the timer it sets.
resetTrainingUI(d) ==
    [d EXCEPT !.startDisabled = FALSE, !.stopDisabled = FALSE,
              !.stopHidden = TRUE,
              !.statusClasses = (@ \ {"blue"}) \cup {"green"},
              !.statusText = <<"Training completed successfully", 0>>]

\* The render block of fetchAndUpdateData (its try): the page it leaves and
\* whether it threw. updateCharts reads every entry before it writes, and
\* each table function builds its rows before it assigns innerHTML.
RenderTry(d, ledgerRows, blockchainRows) ==
    IF Throws(ledgerRows) THEN [dom |-> d, threw |-> TRUE]
    ELSE LET d1 == updateLedgerTable(updateCharts(d, ledgerRows), ledgerRows)
         IN IF Throws(blockchainRows) THEN [dom |-> d1, threw |-> TRUE]
            ELSE [dom |-> setLoading(updateBlockchainTable(d1, blockchainRows), FALSE),
                  threw |-> FALSE]

\* The outer catch without its inner try: an error of the table functions
\* leaves fetchAndUpdateData.
OuterCatchUnguarded(d, message, ledgerRows, blockchainRows) ==
    LET d1 == setLoading(showError(d, message), FALSE)
        d2 == IF Len(ledgerRows) > 0 /\ ~Throws(ledgerRows)
              THEN updateLedgerTable(d1, ledgerRows) ELSE d1
    IN [dom |-> d2,
        escaped |-> \/ Len(ledgerRows) > 0 /\ Throws(ledgerRows)
                    \/ Len(blockchainRows) > 0 /\ Throws(blockchainRows)]

\* The outer catch without the length tests: it renders whatever the
\* locals hold, the initial empty arrays too.
OuterCatchClearing(d, message, ledgerRows, blockchainRows) ==
    LET d1 == setLoading(showError(d, message), FALSE)
    IN [dom |-> IF Throws(ledgerRows) THEN d1
                ELSE IF Throws(blockchainRows) THEN updateLedgerTable(d1, ledgerRows)
                ELSE updateBlockchainTable(updateLedgerTable(d1, ledgerRows),
                                           blockchainRows),
        escaped |-> FALSE]

\* The outer catch of fetchAndUpdateData: show the message, then render the
\* data the locals hold, inside a try of its own.
OuterCatch(d, message, ledgerRows, blockchainRows) ==
    LET d1 == setLoading(showError(d, message), FALSE)
    IN [dom |->
            IF Len(ledgerRows) > 0 /\ Throws(ledgerRows) THEN d1
            ELSE LET d2 == IF Len(ledgerRows) > 0
                           THEN updateLedgerTable(d1, ledgerRows) ELSE d1
                 IN IF Len(blockchainRows) > 0 /\ ~Throws(blockchainRows)
                    THEN updateBlockchainTable(d2, blockchainRows) ELSE d2,
        escaped |-> FALSE]

----------------------------------------------------------------------------
(* The dashboard page: the calls in flight *)

\* Where a fetchAndUpdateData call can wait: at the await of its ledger
\* fetch, of its audit-log fetch, of its status fetch.
NewCall == [pc |-> "ledger", ledgerData |-> EmptyData, stale |-> FALSE]

\* The fetches a call waiting at pc has made so far. updateFlowerStatus is
\* called, and makes its fetch, before the ledger fetch.
Issued(pc) ==
    IF pc = "ledger" THEN {"flower", "ledger"}
    ELSE IF pc = "blockchain" THEN {"flower", "ledger", "blockchain"}
    ELSE {"flower", "ledger", "blockchain", "status"}

\* calls without the call at position c: fetchAndUpdateData has returned
\* and its locals are gone.
EndCall(cs, c) == SubSeq(cs, 1, c - 1) \o SubSeq(cs, c + 1, Len(cs))

\* Call c has rendered ledger version ver: a call that started before it
\* and holds an older ledger for a render still to come is stale.
Overtake(cs, c, ver) ==
    [x \in 1..Len(cs) |->
        IF x < c /\ cs[x].pc = "blockchain" /\ cs[x].ledgerData.ver < ver
        THEN [cs[x] EXCEPT !.stale = TRUE]
        ELSE cs[x]]

\* The elements as the page's HTML gives them: the banner, the Stop button
\* and the status region hidden (the script only ever un-hides them), the
\* tables and charts empty, and the status panel not yet written.
InitialDom ==
    [loading |-> FALSE, errorVisible |-> FALSE, errorText |-> NoMessage,
     ledgerTable |-> [kind |-> "initial", rows |-> <<>>],
     blockchainTable |-> [kind |-> "initial", rows |-> <<>>],
     charts |-> <<>>,
     startDisabled |-> FALSE, stopDisabled |-> FALSE, stopHidden |-> TRUE,
     statusClasses |-> {"hidden"}, statusText |-> <<"", 0>>,
     flowerStatus |-> [text |-> "", clients |-> 0], progress |-> 0]

\* A timer tick that aborts the calls still in flight before it starts
\* its own.
TickAborting ==
    /\ updateInterval
    /\ Len(calls) < MaxCycles
    /\ flowerCalls < MaxCycles
    /\ dom' = hideError(setLoading(dom, TRUE))
    /\ calls' = <<NewCall>>
    /\ flowerCalls' = flowerCalls + 1
    /\ UNCHANGED <<srvLedger, srvClock, hidePending, updateInterval, uncaught,
                   storeVars, simpleVars, trainVars>>

\* setInterval(fetchAndUpdateData, 3000) fires: fetchAndUpdateData runs up
\* to its first await: the locals, setLoading(true), hideError(), the call
\* of updateFlowerStatus (which runs up to its own fetch) and the ledger
\* fetch.
Tick ==
    /\ updateInterval
    /\ Len(calls) < MaxCycles
    /\ flowerCalls < MaxCycles
    /\ dom' = hideError(setLoading(dom, TRUE))
    /\ calls' = Append(calls, NewCall)
    /\ flowerCalls' = flowerCalls + 1
    /\ UNCHANGED <<srvLedger, srvClock, hidePending, updateInterval, uncaught,
                   storeVars, simpleVars, trainVars>>

\* The ledger fetch of call c fails: the inner catch rethrows, the outer
\* catch ends the call.
LedgerFails(c, kind) ==
    /\ c <= Len(calls)
    /\ calls[c].pc = "ledger"
    /\ LET caught == OuterCatch(dom, [source |-> "Failed to load training data",
                                      kind |-> kind],
                                calls[c].ledgerData.rows, <<>>)
       IN /\ dom' = caught.dom
          /\ uncaught' = (uncaught \/ caught.escaped)
    /\ calls' = EndCall(calls, c)
    /\ UNCHANGED <<srvLedger, srvClock, flowerCalls, hidePending, updateInterval,
                   storeVars, simpleVars, trainVars>>

\* A ledger arrival that writes the ledger table at once, without waiting
\* for the audit-log fetch.
LedgerArrivesRendering(c, data) ==
    /\ c <= Len(calls)
    /\ calls[c].pc = "ledger"
    /\ calls' = [calls EXCEPT ![c].pc = "blockchain", ![c].ledgerData = data]
    /\ dom' = IF Throws(data.rows) THEN dom ELSE updateLedgerTable(dom, data.rows)
    /\ UNCHANGED <<srvLedger, srvClock, flowerCalls, hidePending,
                   updateInterval, uncaught, storeVars, simpleVars, trainVars>>

\* The ledger fetch of call c parses to data: the audit-log fetch is made.
LedgerArrives(c, data) ==
    /\ c <= Len(calls)
    /\ calls[c].pc = "ledger"
    /\ calls' = [calls EXCEPT ![c].pc = "blockchain", ![c].ledgerData = data]
    /\ UNCHANGED <<srvLedger, srvClock, dom, flowerCalls, hidePending,
                   updateInterval, uncaught, storeVars, simpleVars, trainVars>>

\* The audit-log fetch of call c fails.
BlockchainFails(c, kind) ==
    /\ c <= Len(calls)
    /\ calls[c].pc = "blockchain"
    /\ LET caught == OuterCatch(dom, [source |-> "Failed to load blockchain data",
                                      kind |-> kind],
                                calls[c].ledgerData.rows, <<>>)
       IN /\ dom' = caught.dom
          /\ uncaught' = (uncaught \/ caught.escaped)
    /\ calls' = EndCall(calls, c)
    /\ UNCHANGED <<srvLedger, srvClock, flowerCalls, hidePending, updateInterval,
                   storeVars, simpleVars, trainVars>>

\* The audit-log fetch of call c parses to data: the render block runs, and
\* then either the status fetch is made or, if rendering threw, the outer
\* catch ends the call.
BlockchainArrives(c, data) ==
    /\ c <= Len(calls)
    /\ calls[c].pc = "blockchain"
    /\ LET ledgerRows == calls[c].ledgerData.rows
           tried == RenderTry(dom, ledgerRows, data.rows)
           caught == OuterCatch(tried.dom, [source |-> "Failed to update UI",
                                            kind |-> "render"],
                                ledgerRows, data.rows)
       IN IF tried.threw
          THEN /\ dom' = caught.dom
               /\ uncaught' = (uncaught \/ caught.escaped)
               /\ calls' = EndCall(calls, c)
          ELSE /\ dom' = tried.dom
               /\ uncaught' = uncaught
               /\ calls' = [Overtake(calls, c, calls[c].ledgerData.ver)
                                EXCEPT ![c].pc = "status"]
    /\ UNCHANGED <<srvLedger, srvClock, flowerCalls, hidePending, updateInterval,
                   storeVars, simpleVars, trainVars>>

\* The status fetch of call c fails (or its payload is not an object): a
\* warning is logged, and the call ends with hideError().
StatusFails(c, kind) ==
    /\ c <= Len(calls)
    /\ calls[c].pc = "status"
    /\ dom' = hideError(dom)
    /\ calls' = EndCall(calls, c)
    /\ UNCHANGED <<srvLedger, srvClock, flowerCalls, hidePending, updateInterval,
                   uncaught, storeVars, simpleVars, trainVars>>

\* ledgerData.length || 1
RoundShown(rows) == IF Len(rows) = 0 THEN 1 ELSE Len(rows)

\* The status fetch of call c parses to {training_in_progress: training}.
StatusArrives(c, training) ==
    /\ c <= Len(calls)
    /\ calls[c].pc = "status"
    /\ LET ledgerRows == calls[c].ledgerData.rows
           completed == ~training /\ Len(ledgerRows) > 0
           d1 == IF training
                 THEN [dom EXCEPT !.startDisabled = TRUE, !.stopHidden = FALSE,
                                  !.statusClasses = @ \ {"hidden"},
                                  !.statusText = <<"Training in progress (Round",
                                                   RoundShown(ledgerRows)>>]
                 ELSE IF completed THEN resetTrainingUI(dom)
                 ELSE dom
       IN /\ dom' = hideError(d1)
          /\ hidePending' = (hidePending \/ completed)
    /\ calls' = EndCall(calls, c)
    /\ UNCHANGED <<srvLedger, srvClock, flowerCalls, updateInterval, uncaught,
                   storeVars, simpleVars, trainVars>>

\* The fetch of an updateFlowerStatus call fails: its catch writes the
\* error label.
FlowerFails(kind) ==
    /\ flowerCalls > 0
    /\ dom' = [dom EXCEPT !.flowerStatus = [text |-> "Error", clients |-> 0]]
    /\ flowerCalls' = flowerCalls - 1
    /\ UNCHANGED <<srvLedger, srvClock, calls, hidePending, updateInterval,
                   uncaught, storeVars, simpleVars, trainVars>>

\* The fetch of an updateFlowerStatus call parses to status: the panel is
\* written.
FlowerArrives(status) ==
    /\ flowerCalls > 0
    /\ dom' = [dom EXCEPT !.flowerStatus = StatusLabel(status),
                          !.progress = Progress(status)]
    /\ flowerCalls' = flowerCalls - 1
    /\ UNCHANGED <<srvLedger, srvClock, calls, hidePending, updateInterval,
                   uncaught, storeVars, simpleVars, trainVars>>

\* A setTimeout of resetTrainingUI fires; others may still be pending.
HideTimerFires ==
    /\ hidePending
    /\ dom' = [dom EXCEPT !.statusClasses = @ \cup {"hidden"}]
    /\ hidePending' \in BOOLEAN
    /\ UNCHANGED <<srvLedger, srvClock, calls, flowerCalls, updateInterval,
                   uncaught, storeVars, simpleVars, trainVars>>

\* The backend finishes a training round: one more ledger entry.
ServerRound ==
    /\ updateInterval
    /\ srvClock < MaxClock
    /\ Len(srvLedger) < MaxEntries
    /\ srvLedger' = Append(srvLedger, LedgerEntry(Len(srvLedger) + 1, srvClock + 1))
    /\ srvClock' = srvClock + 1
    /\ UNCHANGED <<dom, calls, flowerCalls, hidePending, updateInterval,
                   uncaught, storeVars, simpleVars, trainVars>>

\* The backend starts over with an empty ledger.
ServerReset ==
    /\ updateInterval
    /\ srvClock < MaxClock
    /\ srvLedger # <<>>
    /\ srvLedger' = <<>>
    /\ srvClock' = srvClock + 1
    /\ UNCHANGED <<dom, calls, flowerCalls, hidePending, updateInterval,
                   uncaught, storeVars, simpleVars, trainVars>>

\* beforeunload: clearInterval(updateInterval). The page and everything in
\* flight on it are gone.
Unload ==
    /\ updateInterval
    /\ updateInterval' = FALSE
    /\ calls' = <<>>
    /\ flowerCalls' = 0
    /\ dom' = InitialDom
    /\ hidePending' = FALSE
    /\ UNCHANGED <<srvLedger, srvClock, uncaught, storeVars, simpleVars,
                   trainVars>>

\* The page once the DOMContentLoaded handler's timeout has run: the timer
\* is set and the first fetchAndUpdateData call is at its ledger fetch.
PollInit ==
    /\ srvLedger = <<>>
    /\ srvClock = 0
    /\ dom = hideError(setLoading(InitialDom, TRUE))
    /\ calls = <<NewCall>>
    /\ flowerCalls = 1
    /\ hidePending = FALSE
    /\ updateInterval = TRUE
    /\ uncaught = FALSE

PollNext ==
    \/ Tick
    \/ \E c \in Slots, kind \in FetchFailures : LedgerFails(c, kind)
    \/ \E c \in Slots, data \in LedgerPayloads : LedgerArrives(c, data)
    \/ \E c \in Slots, kind \in FetchFailures : BlockchainFails(c, kind)
    \/ \E c \in Slots, data \in ChainPayloads : BlockchainArrives(c, data)
    \/ \E c \in Slots, kind \in FetchFailures : StatusFails(c, kind)
    \/ \E c \in Slots, training \in BOOLEAN : StatusArrives(c, training)
    \/ \E kind \in FetchFailures : FlowerFails(kind)
    \/ \E status \in FlowerPayloads : FlowerArrives(status)
    \/ HideTimerFires
    \/ ServerRound
    \/ ServerReset
    \/ Unload

----------------------------------------------------------------------------
(* The SimpleStorage contract, as its test and scripts/interact.js use it *)

\* Arguments setValue is called with: the 42 of the test and of
\* scripts/interact.js, and two more.
SetValues == {0, 1, 42}

\* What the contract holds after setValue(_value), whatever it held: a
\* value that is kept once it is no longer 0 ...
StoredAfterSetValueOnce(old, value) == IF old = 0 THEN value ELSE old

\* ... and the contract's: the argument.
StoredAfterSetValue(old, value) == value

\* SimpleStorage.deploy() and waitForDeployment(): a fresh contract.
SimpleInit ==
    /\ storedValue = 0
    /\ pendingTxs = <<>>
    /\ minedTxs = <<>>
    /\ gotValue = <<>>

Deploy ==
    /\ storedValue' = 0
    /\ pendingTxs' = <<>>
    /\ minedTxs' = <<>>
    /\ gotValue' = <<>>
    /\ UNCHANGED <<storeVars, pollVars, trainVars>>

\* simpleStorage.setValue(value): the transaction is sent, not yet mined.
setValueSent(value) ==
    /\ Len(pendingTxs) + Len(minedTxs) < MaxTxs
    /\ pendingTxs' = Append(pendingTxs, value)
    /\ UNCHANGED <<storedValue, minedTxs, gotValue, storeVars, pollVars,
                   trainVars>>

\* The i-th pending transaction is mined (what tx.wait() waits for):
\* setValue runs in the contract.
setValueMined(i) ==
    /\ i \in 1..Len(pendingTxs)
    /\ storedValue' = StoredAfterSetValue(storedValue, pendingTxs[i])
    /\ minedTxs' = Append(minedTxs, pendingTxs[i])
    /\ pendingTxs' = [j \in 1..(Len(pendingTxs) - 1) |->
                         IF j < i THEN pendingTxs[j] ELSE pendingTxs[j + 1]]
    /\ UNCHANGED <<gotValue, storeVars, pollVars, trainVars>>

\* simpleStorage.getValue(): a view call.
getValue ==
    /\ gotValue' = <<storedValue>>
    /\ UNCHANGED <<storedValue, pendingTxs, minedTxs, storeVars, pollVars,
                   trainVars>>

SimpleNext ==
    \/ Deploy
    \/ \E value \in SetValues : setValueSent(value)
    \/ \E i \in 1..MaxTxs : setValueMined(i)
    \/ getValue

----------------------------------------------------------------------------
(* The dashboard page: the Start and Stop buttons *)

DigitChars == <<"0", "1", "2", "3", "4", "5", "6", "7", "8", "9">>

IsDigit(ch) == \E n \in 1..10 : DigitChars[n] = ch

DigitValue(ch) == (CHOOSE n \in 1..10 : DigitChars[n] = ch) - 1

\* A JavaScript number as far as startTraining looks at it: NaN or an
\* integer.
NaN == [nan |-> TRUE, value |-> 0]
Number(n) == [nan |-> FALSE, value |-> n]

isNaN(n) == n.nan

RECURSIVE SkipSpaces(_)
SkipSpaces(chars) ==
    IF chars # <<>> /\ Head(chars) = " " THEN SkipSpaces(Tail(chars))
    ELSE chars

RECURSIVE LeadingDigits(_)
LeadingDigits(chars) ==
    IF chars # <<>> /\ IsDigit(Head(chars))
    THEN <<Head(chars)>> \o LeadingDigits(Tail(chars))
    ELSE <<>>

RECURSIVE DecimalValue(_)
DecimalValue(digits) ==
    IF digits = <<>> THEN 0
    ELSE 10 * DecimalValue(SubSeq(digits, 1, Len(digits) - 1))
         + DigitValue(digits[Len(digits)])

\* parseInt(string) of a string of characters: leading spaces are skipped,
\* a sign is read, then the decimal digits up to the first other character;
\* NaN when there is no digit there.
parseInt(string) ==
    LET chars == SkipSpaces(string)
        signed == chars # <<>> /\ Head(chars) \in {"-", "+"}
        negative == chars # <<>> /\ Head(chars) = "-"
        digits == LeadingDigits(IF signed THEN Tail(chars) ELSE chars)
    IN IF digits = <<>> THEN NaN
       ELSE Number(IF negative THEN 0 - DecimalValue(digits)
                   ELSE DecimalValue(digits))

\* What the two inputs can hold when Start is clicked: "", "0", "1", "2x",
\* "-1", "a" and "1.5".
InputValues ==
    {<<>>, <<"0">>, <<"1">>, <<"2", "x">>, <<"-", "1">>, <<"a">>,
     <<"1", ".", "5">>}

\* A check of the inputs that lets 0 through ...
InvalidCountBelowZero(n) == isNaN(n) \/ n.value < 0

\* ... and startTraining's: isNaN(n) || n < 1.
InvalidCount(n) == isNaN(n) \/ n.value < 1

\* The body of POST /api/train.
TrainBody(numRounds, numClients) ==
    [num_rounds |-> numRounds, num_clients |-> numClients]

TrainInit ==
    /\ trainCalls = <<>>
    /\ stopCalls = 0
    /\ alertText = ""

\* A click on Start with these values in the two inputs: startTraining runs
\* up to the await of its fetch, or to the return after an alert. A disabled
\* button takes no click.
startTraining(roundsValue, clientsValue) ==
    /\ updateInterval
    /\ ~dom.startDisabled
    /\ LET numRounds == parseInt(roundsValue)
           numClients == parseInt(clientsValue)
       IN IF InvalidCount(numRounds)
          THEN /\ alertText' = "Please enter a valid number of rounds (minimum 1)"
               /\ UNCHANGED <<dom, trainCalls>>
          ELSE IF InvalidCount(numClients)
          THEN /\ alertText' = "Please enter a valid number of clients (minimum 1)"
               /\ UNCHANGED <<dom, trainCalls>>
          ELSE /\ Len(trainCalls) < MaxStarts
               /\ dom' = [dom EXCEPT
                             !.startDisabled = TRUE,
                             !.stopHidden = FALSE,
                             !.statusClasses = (@ \ {"hidden", "red"}) \cup {"blue"},
                             !.statusText = <<"Starting training...", 0>>]
               /\ trainCalls' = Append(trainCalls,
                                       [numRounds |-> numRounds.value,
                                        numClients |-> numClients.value,
                                        body |-> TrainBody(numRounds.value,
                                                           numClients.value)])
               /\ UNCHANGED alertText
    /\ UNCHANGED <<srvLedger, srvClock, calls, flowerCalls, hidePending,
                   updateInterval, uncaught, stopCalls, storeVars, simpleVars>>

\* POST /api/train of the i-th waiting startTraining call is acknowledged.
StartAcked(i) ==
    /\ i \in 1..Len(trainCalls)
    /\ dom' = [dom EXCEPT !.statusText = <<"Training in progress (rounds, clients)",
                                           trainCalls[i].numRounds,
                                           trainCalls[i].numClients>>]
    /\ trainCalls' = EndCall(trainCalls, i)
    /\ UNCHANGED <<srvLedger, srvClock, calls, flowerCalls, hidePending,
                   updateInterval, uncaught, stopCalls, alertText, storeVars,
                   simpleVars>>

\* POST /api/train of the i-th waiting startTraining call fails (the fetch
\* rejects, the response is not ok, or its body does not parse): the catch.
StartFails(i) ==
    /\ i \in 1..Len(trainCalls)
    /\ dom' = [dom EXCEPT !.statusClasses = (@ \ {"blue"}) \cup {"red"},
                          !.statusText = <<"Error", 0>>,
                          !.startDisabled = FALSE,
                          !.stopHidden = TRUE]
    /\ trainCalls' = EndCall(trainCalls, i)
    /\ UNCHANGED <<srvLedger, srvClock, calls, flowerCalls, hidePending,
                   updateInterval, uncaught, stopCalls, alertText, storeVars,
                   simpleVars>>

\* A click on Stop: stopTraining runs up to the await of its fetch. A hidden
\* or disabled button takes no click.
stopTraining ==
    /\ updateInterval
    /\ ~dom.stopHidden
    /\ ~dom.stopDisabled
    /\ stopCalls < MaxStops
    /\ dom' = [dom EXCEPT !.stopDisabled = TRUE,
                          !.statusText = <<"Stopping training...", 0>>]
    /\ stopCalls' = stopCalls + 1
    /\ UNCHANGED <<srvLedger, srvClock, calls, flowerCalls, hidePending,
                   updateInterval, uncaught, trainCalls, alertText, storeVars,
                   simpleVars>>

\* POST /api/stop is acknowledged: resetTrainingUI().
StopAcked ==
    /\ stopCalls > 0
    /\ dom' = resetTrainingUI(dom)
    /\ hidePending' = TRUE
    /\ stopCalls' = stopCalls - 1
    /\ UNCHANGED <<srvLedger, srvClock, calls, flowerCalls, updateInterval,
                   uncaught, trainCalls, alertText, storeVars, simpleVars>>

\* POST /api/stop fails: the catch.
StopFails ==
    /\ stopCalls > 0
    /\ dom' = [dom EXCEPT !.statusClasses = (@ \ {"blue"}) \cup {"red"},
                          !.statusText = <<"Error", 0>>,
                          !.stopDisabled = FALSE]
    /\ stopCalls' = stopCalls - 1
    /\ UNCHANGED <<srvLedger, srvClock, calls, flowerCalls, hidePending,
                   updateInterval, uncaught, trainCalls, alertText, storeVars,
                   simpleVars>>

\* The buttons alone, under arbitrary input values and responses.
StartNext ==
    \/ \E roundsValue \in InputValues, clientsValue \in InputValues :
           startTraining(roundsValue, clientsValue)
    \/ \E i \in 1..MaxStarts : StartAcked(i)
    \/ \E i \in 1..MaxStarts : StartFails(i)
    \/ stopTraining
    \/ StopAcked
    \/ StopFails
    \/ HideTimerFires

\* Valid values of the two inputs.
ValidInputs == {<<"1">>}

\* The backend's current data, as a fetch of the ledger and one of the
\* audit log parse it.
ServedLedger == {[rows |-> srvLedger, ver |-> srvClock]}
ServedChain == {[rows |-> Chain(srvLedger), ver |-> srvClock]}

\* The page while it stays open and its data fetches succeed: the buttons,
\* and the poll cycles and timers that write the same elements.
ControlNext ==
    \/ \E roundsValue \in ValidInputs, clientsValue \in ValidInputs :
           startTraining(roundsValue, clientsValue)
    \/ \E i \in 1..MaxStarts : StartAcked(i)
    \/ \E i \in 1..MaxStarts : StartFails(i)
    \/ stopTraining
    \/ StopAcked
    \/ StopFails
    \/ Tick
    \/ \E c \in Slots, data \in ServedLedger : LedgerArrives(c, data)
    \/ \E c \in Slots, data \in ServedChain : BlockchainArrives(c, data)
    \/ \E c \in Slots, kind \in FetchFailures : StatusFails(c, kind)
    \/ \E c \in Slots, training \in BOOLEAN : StatusArrives(c, training)
    \/ \E kind \in FetchFailures : FlowerFails(kind)
    \/ HideTimerFires
    \/ ServerRound

----------------------------------------------------------------------------
(* Specifications *)

Init == StoreInit /\ PollInit /\ SimpleInit /\ TrainInit

\* The contract under arbitrary calls.
StoreSpec == Init /\ [][StoreNext]_vars

\* The page under arbitrary responses.
PollSpec == Init /\ [][PollNext]_vars

\* SimpleStorage under arbitrary deployments, transactions and reads.
SimpleSpec == Init /\ [][SimpleNext]_vars

\* The Start and Stop buttons under arbitrary input values.
StartSpec == Init /\ [][StartNext]_vars

\* The page under clicks with valid inputs and arbitrary responses.
ControlSpec == Init /\ [][ControlNext]_vars

\* The page when every fetch is answered (or fails) in the end and the
\* interval timer fires whenever it can.
PollFairSpec ==
    /\ PollSpec
    /\ WF_vars(Tick)
    /\ WF_vars(\E kind \in FetchFailures : FlowerFails(kind)
               \/ \E status \in FlowerPayloads : FlowerArrives(status))
    /\ \A c \in Slots :
           /\ WF_vars(\E kind \in FetchFailures : LedgerFails(c, kind)
                      \/ \E data \in LedgerPayloads : LedgerArrives(c, data))
           /\ WF_vars(\E kind \in FetchFailures : BlockchainFails(c, kind)
                      \/ \E data \in ChainPayloads : BlockchainArrives(c, data))
           /\ WF_vars(\E kind \in FetchFailures : StatusFails(c, kind)
                      \/ \E training \in BOOLEAN : StatusArrives(c, training))

----------------------------------------------------------------------------
(* The dashboard page: properties of a fetchAndUpdateData call *)

\* The call at position c returns in this step.
CallEnds(c) ==
    /\ c <= Len(calls)
    /\ updateInterval'
    /\ calls' = EndCall(calls, c)

\* The call at position c gets past its render block in this step.
CallRenders(c) ==
    /\ c <= Len(calls)
    /\ calls[c].pc = "blockchain"
    /\ Len(calls') = Len(calls)
    /\ calls'[c].pc = "status"

\* C4 (as the claim states it): when the ledger fetch of a call fails, the
\* call ends with the audit-log table showing the audit log the backend
\* serves and with the error banner visible, and the timer stays set.
C4_AuditTableUpdatedWhenLedgerFails ==
    [][\A c \in Slots, kind \in FetchFailures :
          LedgerFails(c, kind) =>
              /\ dom'.errorVisible
              /\ dom'.blockchainTable = BlockchainTableOf(Chain(srvLedger))
              /\ updateInterval']_vars

\* C5 (as the claim states it): a call that returns has made its ledger,
\* audit-log and status fetches, whichever of them failed, and a failed
\* audit-log fetch leaves the ledger table showing the ledger the call
\* fetched.
C5_AllFetchesIssued ==
    [][\A c \in Slots :
          /\ CallEnds(c) =>
                 {"ledger", "blockchain", "status"} \subseteq Issued(calls[c].pc)
          /\ \A kind \in FetchFailures :
                 BlockchainFails(c, kind) =>
                     dom'.ledgerTable = LedgerTableOf(calls[c].ledgerData.rows)]_vars

\* C6: no error escapes fetchAndUpdateData or updateFlowerStatus, whatever
\* the fetches and the render block do; every call returns (the oldest call
\* in flight returns again and again, unless none is in flight again and
\* again), every updateFlowerStatus call returns, and ticks keep starting
\* calls until the page is unloaded.
C6_NothingEscapesAndTicksRecur ==
    /\ [](~uncaught)
    /\ \/ []<>(calls = <<>>)
       \/ []<><<calls # <<>> /\ calls' = Tail(calls)>>_vars
    /\ \/ []<>(flowerCalls = 0)
       \/ []<><<flowerCalls' < flowerCalls>>_vars
    /\ \/ <>[](~updateInterval)
       \/ []<><<updateInterval' /\ Len(calls') > Len(calls)>>_vars

\* A call whose render block threw has returned through the outer catch,
\* an updateFlowerStatus call has failed, and the timer is still set.
C6_Witness ==
    /\ updateInterval
    /\ calls = <<>>
    /\ dom.errorVisible
    /\ dom.errorText.source = "Failed to update UI"
    /\ dom.flowerStatus.text = "Error"

StatusFailureIsSilent ==
    /\ \A c \in Slots, kind \in FetchFailures :
           StatusFails(c, kind) =>
               /\ ~dom'.errorVisible
               /\ dom'.ledgerTable = dom.ledgerTable
               /\ dom'.blockchainTable = dom.blockchainTable
    /\ \A kind \in FetchFailures :
           FlowerFails(kind) =>
               /\ dom'.errorVisible = dom.errorVisible
               /\ dom'.errorText = dom.errorText
               /\ dom'.ledgerTable = dom.ledgerTable
               /\ dom'.blockchainTable = dom.blockchainTable

\* C8 (amended): a failed status fetch never shows the banner and never
\* changes the tables, and a call whose ledger and audit-log fetches
\* succeeded and whose render block did not throw ends with the banner
\* hidden, whatever its status fetch did.
C8_StatusFailureIsSilent ==
    [][/\ StatusFailureIsSilent
       /\ \A c \in Slots :
              CallEnds(c) /\ calls[c].pc = "status" => ~dom'.errorVisible]_vars

\* The banner is hidden and the ledger table shows rows although an
\* updateFlowerStatus fetch has failed.
C8_Witness ==
    /\ dom.flowerStatus.text = "Error"
    /\ ~dom.errorVisible
    /\ dom.ledgerTable.kind = "rows"
    /\ calls = <<>>

\* C8 (as the claim states it): a failed status fetch never shows the
\* banner and never changes the tables, and a call whose ledger and
\* audit-log fetches succeeded ends with the banner hidden.
C8_AsStated ==
    [][/\ StatusFailureIsSilent
       /\ \A c \in Slots :
              CallEnds(c) /\ calls[c].pc # "ledger"
              /\ ~(\E kind \in FetchFailures : BlockchainFails(c, kind))
                  => ~dom'.errorVisible]_vars

\* C9: a tick leaves the calls in flight as they are, and a call that gets
\* past its render block has written both tables from its own data,
\* whether or not a call started after it has already rendered newer data.
C9_NoCancellationLastWriteWins ==
    [][/\ flowerCalls' > flowerCalls =>
              /\ Len(calls') = Len(calls) + 1
              /\ SubSeq(calls', 1, Len(calls)) = calls
       /\ \A c \in Slots, data \in ChainPayloads :
              BlockchainArrives(c, data) /\ CallRenders(c) =>
                  /\ dom'.ledgerTable = LedgerTableOf(calls[c].ledgerData.rows)
                  /\ dom'.blockchainTable = BlockchainTableOf(data.rows)]_vars

\* A call has just rendered a ledger older than the one a call started
\* after it had rendered before: the table shows the older ledger.
C9_Witness ==
    \E c \in Slots :
        /\ c <= Len(calls)
        /\ calls[c].pc = "status"
        /\ calls[c].stale
        /\ dom.ledgerTable = LedgerTableOf(calls[c].ledgerData.rows)
        /\ dom.ledgerTable # LedgerTableOf(srvLedger)

\* C10 (as the claim states it): a call whose two fetches succeeded and
\* whose render block ran leaves the ledger table, the audit-log table and
\* the charts showing exactly the data it fetched.
C10_DisplayIsThisCallsSnapshot ==
    [][\A c \in Slots, data \in ChainPayloads :
          BlockchainArrives(c, data) /\ CallRenders(c) =>
              /\ dom'.ledgerTable = LedgerTableOf(calls[c].ledgerData.rows)
              /\ dom'.blockchainTable = BlockchainTableOf(data.rows)
              /\ dom'.charts = ChartsOf(calls[c].ledgerData.rows)]_vars

\* C11: the ledger table, the audit-log table and the charts are written
\* only in the step in which the audit-log fetch of a call resolves (with
\* data or with a failure), a call whose ledger fetch has resolved before;
\* the settling of an updateFlowerStatus fetch writes none of them and moves
\* no call, and a call renders without an updateFlowerStatus fetch settling.
C11_RenderAfterBothFetches ==
    [][/\ (/\ updateInterval'
           /\ \/ dom'.ledgerTable # dom.ledgerTable
              \/ dom'.blockchainTable # dom.blockchainTable
              \/ dom'.charts # dom.charts)
          => \E c \in Slots :
                 /\ c <= Len(calls)
                 /\ calls[c].pc = "blockchain"
                 /\ CallEnds(c) \/ CallRenders(c)
       /\ (updateInterval' /\ flowerCalls' < flowerCalls) =>
              /\ calls' = calls
              /\ dom'.ledgerTable = dom.ledgerTable
              /\ dom'.blockchainTable = dom.blockchainTable
              /\ dom'.charts = dom.charts
       /\ \A c \in Slots : CallRenders(c) => flowerCalls' = flowerCalls]_vars

\* A call has rendered a ledger while no updateFlowerStatus fetch has
\* settled yet: the status panel is still unwritten.
C11_Witness ==
    /\ Len(calls) = 1
    /\ calls[1].pc = "status"
    /\ dom.ledgerTable.kind = "rows"
    /\ flowerCalls > 0
    /\ dom.flowerStatus.text = ""

\* The page when, besides, every setTimeout of resetTrainingUI fires.
TrainFairSpec == PollFairSpec /\ WF_vars(HideTimerFires)

\* The step in which the status fetch of call c reports that no training
\* is in progress while the call holds a ledger with an entry.
TrainingSeenCompleted(c) ==
    /\ StatusArrives(c, FALSE)
    /\ Len(calls[c].ledgerData.rows) > 0

\* What such a step does whatever the page showed before: Start enabled,
\* Stop hidden, the completed message as status text, and a timer set.
LeavesTrainingState ==
    /\ ~dom'.startDisabled
    /\ dom'.stopHidden
    /\ dom'.statusText = <<"Training completed successfully", 0>>
    /\ "green" \in dom'.statusClasses
    /\ hidePending'

\* C12 (amended): a status that reports no training for a call holding a
\* non-empty ledger enables Start, hides Stop and writes the completed
\* message, whatever the page showed before; the status region is as
\* visible as it was before (the step does not un-hide it); and once a
\* timer of resetTrainingUI is pending the region gets hidden.
C12_CompletedThenHidden ==
    /\ [][\A c \in Slots :
             TrainingSeenCompleted(c) =>
                 /\ LeavesTrainingState
                 /\ ("hidden" \in dom'.statusClasses) = ("hidden" \in dom.statusClasses)]_vars
    /\ hidePending ~> ("hidden" \in dom.statusClasses)

\* The status region is visible and shows the completed message, Start is
\* enabled, Stop is hidden, and the timer that will hide the region is
\* pending.
C12_Witness ==
    /\ dom.statusText = <<"Training completed successfully", 0>>
    /\ "hidden" \notin dom.statusClasses
    /\ ~dom.startDisabled
    /\ dom.stopHidden
    /\ hidePending

\* C12 (as the claim states it): such a step leaves the status region
\* showing the completed message, whatever the page showed before, and the
\* region gets hidden afterwards.
C12_AsStated ==
    /\ [][\A c \in Slots :
             TrainingSeenCompleted(c) =>
                 /\ LeavesTrainingState
                 /\ "hidden" \notin dom'.statusClasses]_vars
    /\ hidePending ~> ("hidden" \in dom.statusClasses)

----------------------------------------------------------------------------
(* MetadataStorage: what a record keeps and what the reads return *)

\* The ids of the records that exist.
RecordIds == 0..(metadataCount - 1)

\* C13: in every step, every existing record is still there afterwards
\* with the same owner, timestamp, tags, title and description; its file
\* hash changes only in a successful updateFileHash on that id, its custom
\* fields only in a successful addCustomField on that id, and the caller of
\* either is the record's owner.
C13_OnlyOwnerChangesHashAndFields ==
    [][\A id \in RecordIds :
          /\ id \in DOMAIN metadataStore'
          /\ id < metadataCount'
          /\ metadataStore'[id].owner = metadataStore[id].owner
          /\ metadataStore'[id].timestamp = metadataStore[id].timestamp
          /\ metadataStore'[id].tags = metadataStore[id].tags
          /\ metadataStore'[id].title = metadataStore[id].title
          /\ metadataStore'[id].description = metadataStore[id].description
          /\ metadataStore'[id].fileHash # metadataStore[id].fileHash =>
                 /\ lastCall'.op = "updateFileHash"
                 /\ lastCall'.result = "ok"
                 /\ lastCall'.id = id
                 /\ lastCall'.caller = metadataStore[id].owner
          /\ metadataStore'[id].customFields # metadataStore[id].customFields =>
                 /\ lastCall'.op = "addCustomField"
                 /\ lastCall'.result = "ok"
                 /\ lastCall'.id = id
                 /\ lastCall'.caller = metadataStore[id].owner]_vars

\* The owner of a record created with a title has just replaced its file
\* hash, after a custom field was added to it, and a second record exists.
C13_Witness ==
    /\ lastCall.op = "updateFileHash"
    /\ lastCall.result = "ok"
    /\ metadataCount = 2
    /\ StoreAt(lastCall.id).title = "t"
    /\ StoreAt(lastCall.id).fileHash = "h1"
    /\ StoreAt(lastCall.id).customFields["k1"] = "v"

\* C14: createMetadata returns the next id and leaves at that id the
\* title, description and tags it was given, the caller as owner, the
\* block's time as timestamp and the given file hash; a successful
\* updateFileHash replaces the file hash and nothing else of what
\* getMetadata returns; no other step changes what getMetadata returns for
\* an existing id; getMetadata returns exactly the stored fields and
\* changes nothing; and createMetadata can be called with any of the
\* argument tuples (the empty ones too) by any caller.
C14_GetMetadataReturnsWhatWasStored ==
    /\ [][/\ lastCall'.op = "createMetadata" =>
                 \A caller \in Callers, args \in CreateArgs, t \in BlockTimes :
                     createMetadata(caller, args, t) =>
                         /\ lastCall'.ret = metadataCount
                         /\ metadataStore'[metadataCount].title = args.title
                         /\ metadataStore'[metadataCount].description = args.description
                         /\ metadataStore'[metadataCount].tags = args.tags
                         /\ metadataStore'[metadataCount].owner = caller
                         /\ metadataStore'[metadataCount].timestamp = t
                         /\ metadataStore'[metadataCount].fileHash = args.fileHash
          /\ (lastCall'.op = "updateFileHash" /\ lastCall'.result = "ok") =>
                 \A caller \in Callers, id \in RecordIds, h \in NewHashes :
                     updateFileHash(caller, id, h) =>
                         metadataStore' = [metadataStore EXCEPT ![id].fileHash = h]
          /\ \A id \in RecordIds :
                 ~(lastCall'.op = "updateFileHash" /\ lastCall'.result = "ok"
                   /\ lastCall'.id = id) =>
                     /\ metadataStore'[id].title = metadataStore[id].title
                     /\ metadataStore'[id].description = metadataStore[id].description
                     /\ metadataStore'[id].owner = metadataStore[id].owner
                     /\ metadataStore'[id].timestamp = metadataStore[id].timestamp
                     /\ metadataStore'[id].tags = metadataStore[id].tags
                     /\ metadataStore'[id].fileHash = metadataStore[id].fileHash
          /\ (lastCall'.op = "getMetadata" /\ lastCall'.id \in RecordIds) =>
                 /\ lastCall'.result = "ok"
                 /\ lastCall'.ret = <<metadataStore[lastCall'.id].title,
                                      metadataStore[lastCall'.id].description,
                                      metadataStore[lastCall'.id].owner,
                                      metadataStore[lastCall'.id].timestamp,
                                      metadataStore[lastCall'.id].tags,
                                      metadataStore[lastCall'.id].fileHash>>
                 /\ metadataStore' = metadataStore
                 /\ metadataCount' = metadataCount]_vars
    /\ [](metadataCount < MaxRecords =>
              \A caller \in Callers, args \in CreateArgs :
                  ENABLED createMetadata(caller, args, blockTime))

\* getMetadata has just returned, for a record created with a title and
\* tags by alice, the creation fields and the file hash of a later update.
C14_Witness ==
    /\ lastCall.op = "getMetadata"
    /\ lastCall.result = "ok"
    /\ lastCall.ret[1] = "t"
    /\ lastCall.ret[3] = "alice"
    /\ lastCall.ret[5] = <<"a", "b">>
    /\ lastCall.ret[6] = "h1"
    /\ \E id \in RecordIds : StoreAt(id).title = ""

\* C15: a successful addCustomField(id, k, v) leaves v at key k and every
\* other key of the record as it was; no other step changes a custom field
\* of an existing record; getCustomField(id, k) on an existing record
\* returns the stored value of k, fails never, and changes nothing; and a
\* record starts with the empty value at every key.
C15_GetCustomFieldReturnsLatestAdd ==
    [][/\ (lastCall'.op = "addCustomField" /\ lastCall'.result = "ok") =>
              \A caller \in Callers, id \in RecordIds, k \in FieldKeys,
                 v \in FieldValues :
                  addCustomField(caller, id, k, v) =>
                      /\ metadataStore'[id].customFields[k] = v
                      /\ \A other \in FieldKeys \ {k} :
                             metadataStore'[id].customFields[other]
                                 = metadataStore[id].customFields[other]
       /\ \A id \in RecordIds :
              ~(lastCall'.op = "addCustomField" /\ lastCall'.result = "ok"
                /\ lastCall'.id = id) =>
                  metadataStore'[id].customFields = metadataStore[id].customFields
       /\ (lastCall'.op = "getCustomField" /\ lastCall'.id \in RecordIds) =>
              /\ lastCall'.result = "ok"
              /\ lastCall'.ret = metadataStore[lastCall'.id].customFields[lastCall'.key]
              /\ metadataStore' = metadataStore
              /\ metadataCount' = metadataCount
       /\ metadataCount' > metadataCount =>
              \A k \in FieldKeys : metadataStore'[metadataCount].customFields[k] = ""]_vars

\* getCustomField has just returned the value added at k1 for a record
\* whose key k2 was never given a value other than the empty one, while the
\* other record holds no custom field at all.
C15_Witness ==
    /\ lastCall.op = "getCustomField"
    /\ lastCall.result = "ok"
    /\ lastCall.key = "k1"
    /\ lastCall.ret = "v"
    /\ StoreAt(lastCall.id).customFields["k2"] = ""
    /\ metadataCount = 2
    /\ \E id \in RecordIds : \A k \in FieldKeys : StoreAt(id).customFields[k] = ""

----------------------------------------------------------------------------
(* The dashboard page: what the tables show of the arrays they are given *)

\* Arrays of up to MaxRows entries for GET /api/ledger to answer with: the
\* entry at position i is round i, and the timestamps come in any order,
\* repeated ones too.
RenderTimes == 1..MaxRows
RenderLedgers ==
    UNION { [1..n -> RenderTimes] : n \in 0..MaxRows }
RenderLedgerInputs ==
    { [rows |-> [i \in DOMAIN times |-> LedgerEntry(i, times[i])], ver |-> 0] :
          times \in RenderLedgers }

\* previous_hash values: the 64 zeros, zeros one short and one too many, 64
\* characters that differ from the zeros in the last one only, a short
\* hash, and none.
RenderHashes ==
    { GenesisHash, Zeros(63), Zeros(65), Zeros(63) \o <<"1">>, BlockHash(2), <<>> }

\* Arrays of up to MaxBlocks blocks for GET /api/blockchain to answer with.
RenderBlocks ==
    UNION { [1..n -> (1..MaxBlocks) \X RenderHashes] : n \in 1..MaxBlocks }
RenderChainInputs ==
    { [rows |-> [i \in DOMAIN blocks |->
                    [isNull |-> FALSE, round_num |-> i,
                     timestamp |-> blocks[i][1], data_hash |-> BlockHash(i),
                     previous_hash |-> blocks[i][2]]],
       ver |-> 0] : blocks \in RenderBlocks }

\* The first call of the page, given any of these arrays.
RenderNext ==
    \/ \E data \in RenderLedgerInputs : LedgerArrives(1, data)
    \/ \E data \in RenderChainInputs : BlockchainArrives(1, data)

RenderSpec == Init /\ [][RenderNext]_vars

\* shown is a permutation of given, row by row, and its timestamps do not
\* increase from one row to the next.
IsSortedPermutation(shown, given, timestampOf(_)) ==
    /\ Len(shown) = Len(given)
    /\ \E p \in Permutations(1..Len(given)) :
           \A i \in 1..Len(given) : shown[i] = given[p[i]]
    /\ \A i \in 1..(Len(shown) - 1) :
           timestampOf(shown[i]) >= timestampOf(shown[i + 1])

\* The cells of the row updateLedgerTable makes of entry, and of the row
\* updateBlockchainTable makes of block.
LedgerRowOf(entry) == <<entry.round_num, entry.timestamp>>
BlockRowOf(block) ==
    [round_num |-> block.round_num, timestamp |-> block.timestamp,
     data_hash |-> DataHashCell(block.data_hash),
     previous |-> PreviousHashCell(block.previous_hash)]
TimeOfLedgerRow(row) == row[2]
TimeOfBlockRow(row) == row.timestamp

\* C16: when a call renders a non-empty ledger and a non-empty audit log,
\* the rows of each table are a permutation of the rows of its array's
\* entries, newest first (no row's timestamp is below the next row's),
\* whatever order the array came in; and the array the call holds is the
\* same afterwards.
C16_TablesSortedNewestFirst ==
    [][\A data \in RenderChainInputs :
          (BlockchainArrives(1, data) /\ CallRenders(1)) =>
              LET ledgerRows == calls[1].ledgerData.rows
              IN /\ Len(ledgerRows) > 0 =>
                        IsSortedPermutation(
                            dom'.ledgerTable.rows,
                            [i \in 1..Len(ledgerRows) |-> LedgerRowOf(ledgerRows[i])],
                            TimeOfLedgerRow)
                 /\ IsSortedPermutation(
                        dom'.blockchainTable.rows,
                        [i \in 1..Len(data.rows) |-> BlockRowOf(data.rows[i])],
                        TimeOfBlockRow)
                 /\ calls'[1].ledgerData = calls[1].ledgerData]_vars

\* A ledger that came with the timestamps 3, 1, 2 is shown as 3, 2, 1, and
\* an audit log that came oldest first is shown newest first.
C16_Witness ==
    /\ Len(calls) = 1
    /\ calls[1].pc = "status"
    /\ [i \in 1..Len(calls[1].ledgerData.rows) |->
           calls[1].ledgerData.rows[i].timestamp] = <<3, 1, 2>>
    /\ dom.ledgerTable.rows = << <<1, 3>>, <<3, 2>>, <<2, 1>> >>
    /\ Len(dom.blockchainTable.rows) = 2
    /\ dom.blockchainTable.rows[1].round_num = 2
    /\ dom.blockchainTable.rows[1].timestamp = 2
    /\ dom.blockchainTable.rows[2].round_num = 1
    /\ dom.blockchainTable.rows[2].timestamp = 1

\* C19: when a call renders an audit log, the row of every block shows
\* Genesis as previous hash exactly if the block's previous_hash is the 64
\* zeros, and for every other non-empty previous_hash it shows the first 16
\* characters of that hash.
C19_GenesisOnlyForTheSentinel ==
    [][\A data \in RenderChainInputs :
          (BlockchainArrives(1, data) /\ CallRenders(1)) =>
              \A i \in 1..Len(data.rows) :
                  \E j \in 1..Len(dom'.blockchainTable.rows) :
                      LET block == data.rows[i]
                          row == dom'.blockchainTable.rows[j]
                      IN /\ row.round_num = block.round_num
                         /\ (row.previous.label = "Genesis")
                                = (block.previous_hash = Zeros(64))
                         /\ (block.previous_hash # <<>>
                             /\ block.previous_hash # Zeros(64)) =>
                                /\ row.previous.label = "..."
                                /\ Len(row.previous.prefix) <= 16
                                /\ \A k \in 1..16 :
                                       k <= Len(block.previous_hash) =>
                                           row.previous.prefix[k]
                                               = block.previous_hash[k]]_vars

\* The table shows Genesis for a block whose previous_hash is the 64
\* zeros, and 16 zeros for a block whose previous_hash is 65 zeros.
C19_Witness ==
    /\ Len(dom.blockchainTable.rows) = 2
    /\ dom.blockchainTable.rows[1].previous = [label |-> "Genesis", prefix |-> <<>>]
    /\ dom.blockchainTable.rows[2].previous = [label |-> "...", prefix |-> Zeros(16)]

----------------------------------------------------------------------------
(* The dashboard page: what the status panel shows of a status payload *)

\* Payloads for GET /api/flower/status to answer with: every combination
\* of the three flags, and round numbers below, at and above their usual
\* range.
FlowerRounds == {-1, 0, 1, 3, 11}
FlowerTotals == {-1, 0, 2, 3, 10}
FlowerInputs ==
    [connected : BOOLEAN, server_running : BOOLEAN,
     training_in_progress : BOOLEAN, clients_connected : {0, 2},
     current_round : FlowerRounds, total_rounds : FlowerTotals]

\* The status panel under any of these payloads.
FlowerNext ==
    \/ Tick
    \/ \E kind \in FetchFailures : FlowerFails(kind)
    \/ \E status \in FlowerInputs : FlowerArrives(status)

FlowerSpec == Init /\ [][FlowerNext]_vars

\* round(100 * current_round / total_rounds), halves rounded up, for
\* total_rounds above 0: the integer r with r - 1/2 <= the quotient < r + 1/2.
RoundedPercent(current_round, total_rounds) ==
    CHOOSE r \in -100..1100 :
        /\ 2 * total_rounds * r <= 200 * current_round + total_rounds
        /\ 200 * current_round + total_rounds < 2 * total_rounds * (r + 1)

\* x clamped to the range 0..100.
Clamped(x) == IF x < 0 THEN 0 ELSE IF x > 100 THEN 100 ELSE x

\* C17 (as the claim states it): the percentage the panel shows for a
\* payload is round(100 * current_round / total_rounds) clamped to 0..100,
\* it is 0 when total_rounds is 0, and it is never below 0 nor above 100.
C17_ProgressClampedTo0And100 ==
    [][\A status \in FlowerInputs :
          FlowerArrives(status) =>
              /\ status.total_rounds > 0 =>
                     dom'.progress = Clamped(RoundedPercent(status.current_round,
                                                            status.total_rounds))
              /\ status.total_rounds = 0 => dom'.progress = 0
              /\ dom'.progress >= 0
              /\ dom'.progress <= 100]_vars

\* The four labels of the connection status.
StatusLabels ==
    {"Connected", "Server running but not accessible", "Starting up...",
     "Disconnected"}

\* C18: the label the panel shows for a payload is one of the four, and it
\* is Connected (with the payload's client count) exactly if connected is
\* set, the running-but-not-accessible label exactly if connected is not
\* set and server_running is, the starting-up label exactly if neither is
\* set and training_in_progress is, and Disconnected exactly if none is.
C18_LabelByFirstMatch ==
    [][\A status \in FlowerInputs :
          FlowerArrives(status) =>
              LET shown == dom'.flowerStatus.text
              IN /\ shown \in StatusLabels
                 /\ (shown = "Connected") = status.connected
                 /\ status.connected =>
                        dom'.flowerStatus.clients = status.clients_connected
                 /\ (shown = "Server running but not accessible")
                        = (~status.connected /\ status.server_running)
                 /\ (shown = "Starting up...")
                        = (/\ ~status.connected
                           /\ ~status.server_running
                           /\ status.training_in_progress)
                 /\ (shown = "Disconnected")
                        = (/\ ~status.connected
                           /\ ~status.server_running
                           /\ ~status.training_in_progress)]_vars

\* The panel shows the running-but-not-accessible label next to a progress
\* of 30 percent.
C18_Witness ==
    /\ dom.flowerStatus.text = "Server running but not accessible"
    /\ dom.progress = 30

----------------------------------------------------------------------------
(* SimpleStorage *)

\* C20: getValue() returns 0 on a contract no setValue transaction has been
\* mined on since its deployment, otherwise the argument of the setValue
\* mined last; and getValue leaves the stored value as it was.
C20_GetValueReturnsLastSet ==
    [][getValue =>
          /\ gotValue' = <<IF minedTxs = <<>> THEN 0
                           ELSE minedTxs[Len(minedTxs)]>>
          /\ storedValue' = storedValue]_vars

\* getValue() has returned 42 after a setValue(1) and then a setValue(42)
\* were mined.
C20_Witness ==
    /\ minedTxs = <<1, 42>>
    /\ gotValue = <<42>>

----------------------------------------------------------------------------
(* The Start button *)

\* What JavaScript's parseInt gives for each of InputValues: "" and "a" are
\* NaN, "0" is 0, "1" and "1.5" are 1, "2x" is 2, "-1" is -1.
ParsedInput(value) ==
    IF value = <<"0">> THEN Number(0)
    ELSE IF value \in {<<"1">>, <<"1", ".", "5">>} THEN Number(1)
    ELSE IF value = <<"2", "x">> THEN Number(2)
    ELSE IF value = <<"-", "1">> THEN Number(0 - 1)
    ELSE NaN

\* An input that parses to an integer of at least 1.
AtLeastOne(value) == ~ParsedInput(value).nan /\ ParsedInput(value).value >= 1

\* The buttons and the status region.
Controls(d) ==
    <<d.startDisabled, d.stopDisabled, d.stopHidden, d.statusClasses,
      d.statusText>>

\* C21: a click on Start whose two inputs both parse to an integer of at
\* least 1 sends one POST /api/train whose body holds exactly these two
\* integers; a click with an input that is not a number or is below 1 sends
\* nothing and leaves the buttons and the status region as they were; and
\* no step but such a click with two valid inputs adds a request.
C21_PostOnlyForValidInputs ==
    /\ [][\A roundsValue \in InputValues, clientsValue \in InputValues :
             startTraining(roundsValue, clientsValue) =>
                 IF AtLeastOne(roundsValue) /\ AtLeastOne(clientsValue)
                 THEN /\ Len(trainCalls') = Len(trainCalls) + 1
                      /\ SubSeq(trainCalls', 1, Len(trainCalls)) = trainCalls
                      /\ trainCalls'[Len(trainCalls')].body =
                             [num_rounds |-> ParsedInput(roundsValue).value,
                              num_clients |-> ParsedInput(clientsValue).value]
                 ELSE /\ trainCalls' = trainCalls
                      /\ Controls(dom') = Controls(dom)]_vars
    /\ [][Len(trainCalls') > Len(trainCalls) =>
             \E roundsValue \in InputValues, clientsValue \in InputValues :
                 /\ AtLeastOne(roundsValue)
                 /\ AtLeastOne(clientsValue)
                 /\ startTraining(roundsValue, clientsValue)]_vars

\* A request for 2 rounds and 1 client is in flight, Start is disabled, and
\* an earlier click has been turned down with an alert.
C21_Witness ==
    /\ Len(trainCalls) = 1
    /\ trainCalls[1].body = [num_rounds |-> 2, num_clients |-> 1]
    /\ dom.startDisabled
    /\ alertText # ""

\* C22 (as the claim states it): while a startTraining call awaits its
\* POST /api/train, Start is disabled and Stop is visible, so no two such
\* calls wait at once; and a step enables Start only if it is a failed
\* start request, an acknowledged stop, or a status that reports no
\* training for a call holding a non-empty ledger while no start request
\* is waiting.
C22_StartDisabledWhileInFlight ==
    /\ [](trainCalls # <<>> => (dom.startDisabled /\ ~dom.stopHidden))
    /\ [](Len(trainCalls) <= 1)
    /\ [][(dom.startDisabled /\ ~dom'.startDisabled) =>
             \/ \E i \in 1..MaxStarts : StartFails(i)
             \/ StopAcked
             \/ /\ trainCalls = <<>>
                /\ \E c \in Slots : TrainingSeenCompleted(c)]_vars

----------------------------------------------------------------------------
(* MetadataStorage: records do not touch each other *)

\* C23: a successful updateFileHash or addCustomField of record i leaves
\* every other record as it was, fields and custom fields; a createMetadata
\* leaves every record that existed as it was, and the record it creates
\* has the empty string at every custom-field key.
C23_RecordsAreIsolated ==
    [][/\ (lastCall'.op \in WriteOps /\ lastCall'.result = "ok") =>
              \A j \in RecordIds \ {lastCall'.id} :
                  /\ j \in DOMAIN metadataStore'
                  /\ metadataStore'[j] = metadataStore[j]
       /\ metadataCount' # metadataCount =>
              /\ lastCall'.op = "createMetadata"
              /\ \A j \in RecordIds :
                     /\ j \in DOMAIN metadataStore'
                     /\ metadataStore'[j] = metadataStore[j]
              /\ metadataCount \in DOMAIN metadataStore'
              /\ \A k \in FieldKeys :
                     metadataStore'[metadataCount].customFields[k] = ""]_vars

\* Record 1 has just been created, after record 0 got a custom field and a
\* new file hash: record 0 still has both, record 1 has no custom field.
C23_Witness ==
    /\ lastCall.op = "createMetadata"
    /\ lastCall.id = 1
    /\ metadataCount = 2
    /\ StoreAt(0).customFields["k1"] = "v"
    /\ StoreAt(0).fileHash = "h1"
    /\ StoreAt(1).customFields = [k \in FieldKeys |-> ""]

====
